---- MODULE Spec2Model ----
\* Retail store ledger of src/main.py: the StoreItem mutation operations, the
\* store factory, the sidebar handlers and the aggregation expressions, as a
\* state machine.  One action per sidebar button (one script run each), plus
\* the passing of wall-clock time between two runs.
\*
\* Time is counted in clock ticks, Day ticks to a day, so that datetime.now()
\* moves between runs and timedelta.days (a floor) is a real computation.
\* Transaction.transaction_id (uuid4) is left out: no operation reads it.
EXTENDS Integers, Sequences, FiniteSets, TLC

\* ---------------------------------------------------------------- bounds
MaxSteps == 2       \* button clicks (script runs) explored
MaxNow == 1         \* clock ticks explored
NumSeeds == 3       \* sampled outcomes of the random source

\* ------------------------------------------------------- program constants
Day == 2                    \* timedelta(days=1), in clock ticks
InitialQuantity == 20
DaysReceivedMin == 8
DaysReceivedMax == 12
DaysDisplayedMin == 1
QtyMin == 1
QtyMax == 20
NumItems == 5

ItemNames ==
    << "Baby Yoda Keychain", "iPhone 15 Case", "Disney Princess Keychain",
       "Mandalorian Keychain", "LED Lanyard" >>
ItemUpcs == << "57023", "88002", "99011", "57089", "44022" >>
ItemCategories == << "Keychain", "Accessory", "Keychain", "Keychain", "Accessory" >>
ItemLocations ==
    << "Front Counter", "End Cap A", "Main Shelf", "Main Shelf", "Rotating Rack" >>
SeedRanges == << <<10, 15>>, <<6, 10>>, <<5, 9>>, <<4, 8>>, <<1, 5>> >>

Items == 1..NumItems
Seeds == 0..(NumSeeds - 1)
\* st.sidebar.number_input("Quantity", 1, 20, 1): the two ends are entered
Qtys == {QtyMin, QtyMax}

\* what the last script run wrote: st.sidebar.success / error / info, or the
\* exception Streamlit shows when a handler does not catch it
NoMsg == <<>>
ErrorMsg == <<"error", "Error: Not enough inventory to purchase">>
UncaughtMsg == <<"exception", "Not enough inventory to purchase">>
SoldMsg(qty) == <<"success", "Sold", qty>>
RestockedMsg == <<"success", "Restocked">>
ReturnedMsg == <<"success", "Returned to inventory">>
DayPassedMsg == <<"info", "Day passed">>

VARIABLES store_items, now, sidebar, steps
vars == <<store_items, now, sidebar, steps>>

\* ---------------------------------------------------------------- helpers
Max(a, b) == IF a >= b THEN a ELSE b
Min(a, b) == IF a <= b THEN a ELSE b

RECURSIVE Gcd(_, _)
Gcd(a, b) == IF b = 0 THEN a ELSE Gcd(b, a % b)

RECURSIVE SumSeq(_)
SumSeq(s) == IF s = <<>> THEN 0 ELSE Head(s) + SumSeq(Tail(s))

\* random.randint(lo, hi): the k-th draw of the random source `seed`.  Source 0
\* always draws lo, source 1 always draws hi, the others walk through lo..hi.
RandInt(seed, k, lo, hi) ==
    IF seed = 0 THEN lo
    ELSE IF seed = 1 THEN hi
    ELSE lo + ((seed + k) % (hi - lo + 1))

\* ------------------------------------------------------------- StoreItem
\* the log keeps only the latest transaction
record_transaction_Overwrite(item, qty_change, transaction_type, t) ==
    [item EXCEPT !.transactions =
        << [storeitem_name |-> item.name,
            location |-> item.location,
            quantity_change |-> qty_change,
            timestamp |-> t,
            transaction_type |-> transaction_type] >>]

record_transaction(item, qty_change, transaction_type, t) ==
    [item EXCEPT !.transactions = Append(@,
        [storeitem_name |-> item.name,
         location |-> item.location,
         quantity_change |-> qty_change,
         timestamp |-> t,
         transaction_type |-> transaction_type])]

\* the days are counted from the receipt date
days_on_shelf_FromReceived(item, sell_date) ==
    Max(0, (sell_date - item.shelf_tracking.date_received) \div Day)

\* (sell_date - date_displayed).days clamped at 0
days_on_shelf(item, sell_date) ==
    Max(0, (sell_date - item.shelf_tracking.date_displayed) \div Day)

\* the request is compared with the starting stock, not the stock on hand
InsufficientInventory_InitialStock(item, qty) == qty > InitialQuantity

InsufficientInventory(item, qty) == qty > item.quantity

\* the stock is checked after the durations were appended
purchase_CheckAfter(item, qty, t) ==
    IF InsufficientInventory(item, qty)
    THEN [raised |-> TRUE,
          item |-> [item EXCEPT
              !.sold_durations = @ \o [k \in 1..qty |-> days_on_shelf(item, t)]]]
    ELSE [raised |-> FALSE,
          item |-> record_transaction(
              [item EXCEPT
                  !.sold_durations = @ \o [k \in 1..qty |-> days_on_shelf(item, t)],
                  !.quantity = @ - qty],
              -qty, "purchase", t)]

\* [raised |-> the ValueError was raised, item |-> the item afterwards]
purchase(item, qty, t) ==
    IF InsufficientInventory(item, qty)
    THEN [raised |-> TRUE, item |-> item]
    ELSE [raised |-> FALSE,
          item |-> record_transaction(
              [item EXCEPT
                  !.sold_durations = @ \o [k \in 1..qty |-> days_on_shelf(item, t)],
                  !.quantity = @ - qty],
              -qty, "purchase", t)]

\* the stock grows only by the units whose sale was recorded
return_item_Capped(item, qty, t) ==
    record_transaction(
        [item EXCEPT
            !.sold_durations =
                SubSeq(@, 1, Len(@) - Min(qty, Len(@))),
            !.quantity = @ + Min(qty, Len(item.sold_durations))],
        qty, "return", t)

return_item(item, qty, t) ==
    record_transaction(
        [item EXCEPT
            !.sold_durations =
                SubSeq(@, 1, Len(@) - Min(qty, Len(@))),
            !.quantity = @ + qty],
        qty, "return", t)

\* restocking puts the item on display again
replenish_Redisplayed(item, qty, t) ==
    record_transaction(
        [item EXCEPT !.quantity = @ + qty, !.shelf_tracking.date_displayed = t],
        qty, "replenish", t)

\* restocking is not logged
replenish_Unlogged(item, qty, t) == [item EXCEPT !.quantity = @ + qty]

replenish(item, qty, t) ==
    record_transaction([item EXCEPT !.quantity = @ + qty], qty, "replenish", t)

\* statistics.mean as a reduced fraction <<numerator, denominator>>; 0 is <<0, 1>>
average_days_to_sell(item) ==
    IF item.sold_durations = <<>> THEN <<0, 1>>
    ELSE LET s == SumSeq(item.sold_durations)
             n == Len(item.sold_durations)
             g == Gcd(Max(s, n), Min(s, n))
         IN  <<s \div g, n \div g>>

\* ------------------------------------------------------- store generation
random_shelf_tracking(seed, i, t) ==
    LET days_received == RandInt(seed, 2 * (i - 1), DaysReceivedMin, DaysReceivedMax)
        days_displayed == RandInt(seed, 2 * (i - 1) + 1, DaysDisplayedMin, days_received)
    IN  [date_received |-> t - days_received * Day,
         date_displayed |-> t - days_displayed * Day]

NewItem(seed, i, t) ==
    [name |-> ItemNames[i], upc |-> ItemUpcs[i], quantity |-> InitialQuantity,
     category |-> ItemCategories[i], location |-> ItemLocations[i],
     shelf_tracking |-> random_shelf_tracking(seed, i, t),
     transactions |-> <<>>, sold_durations |-> <<>>]

\* every item is seeded from the first item's range
SeedQty_FirstRange(seed, i) ==
    RandInt(seed, 2 * NumItems + (i - 1), SeedRanges[1][1], SeedRanges[1][2])

SeedQty(seed, i) ==
    RandInt(seed, 2 * NumItems + (i - 1), SeedRanges[i][1], SeedRanges[i][2])

\* [raised |-> a seeding purchase raised, items |-> the list returned otherwise]
generate_store(seed, t) ==
    LET sold == [i \in Items |-> purchase(NewItem(seed, i, t), SeedQty(seed, i), t)]
    IN  [raised |-> \E i \in Items : sold[i].raised,
         items |-> [i \in Items |-> sold[i].item]]

\* ------------------------------------------------------------ aggregation
PurchasedUnits(item) ==
    SumSeq([k \in 1..Len(item.transactions) |->
        IF item.transactions[k].transaction_type = "purchase"
        THEN -item.transactions[k].quantity_change ELSE 0])

ReturnedUnits(item) ==
    SumSeq([k \in 1..Len(item.transactions) |->
        IF item.transactions[k].transaction_type = "return"
        THEN item.transactions[k].quantity_change ELSE 0])

ReplenishedUnits(item) ==
    SumSeq([k \in 1..Len(item.transactions) |->
        IF item.transactions[k].transaction_type = "replenish"
        THEN item.transactions[k].quantity_change ELSE 0])

sales(items) ==
    [i \in Items |-> PurchasedUnits(items[i]) - ReturnedUnits(items[i])]

total_units_sold(items) ==
    SumSeq([i \in Items |-> PurchasedUnits(items[i])])
        - SumSeq([i \in Items |-> ReturnedUnits(items[i])])

\* ------------------------------------------------------------------ Init
Init ==
    /\ now = 0
    /\ steps = 0
    /\ sidebar = NoMsg
    /\ \E seed \in Seeds :
          /\ ~generate_store(seed, 0).raised
          /\ store_items = generate_store(seed, 0).items

\* --------------------------------------------------------------- actions
\* Wall-clock time passes between two script runs (explored only while a
\* click can still follow: a later tick is read by no handler).
Tick ==
    /\ now < MaxNow
    /\ steps < MaxSteps
    /\ now' = now + 1
    /\ UNCHANGED <<store_items, sidebar, steps>>

Click == steps < MaxSteps /\ steps' = steps + 1

Sell(i, qty) ==
    /\ Click
    /\ UNCHANGED now
    /\ LET r == purchase(store_items[i], qty, now) IN
          /\ sidebar' = IF r.raised THEN ErrorMsg ELSE SoldMsg(qty)
          /\ store_items' = [store_items EXCEPT ![i] = r.item]

Restock(i, qty) ==
    /\ Click
    /\ UNCHANGED now
    /\ sidebar' = RestockedMsg
    /\ store_items' = [store_items EXCEPT ![i] = replenish(@, qty, now)]

Return(i, qty) ==
    /\ Click
    /\ UNCHANGED now
    /\ sidebar' = ReturnedMsg
    /\ store_items' = [store_items EXCEPT ![i] = return_item(@, qty, now)]

\* the receipt date is shifted along with the display date
advance_day_BothDates(item) ==
    [item EXCEPT !.shelf_tracking.date_displayed = @ - Day,
                 !.shelf_tracking.date_received = @ - Day]

advance_day(item) ==
    [item EXCEPT !.shelf_tracking.date_displayed = @ - Day]

SimulateDayPassing ==
    /\ Click
    /\ UNCHANGED now
    /\ sidebar' = DayPassedMsg
    /\ store_items' = [i \in Items |-> advance_day(store_items[i])]

\* generate_store raising leaves st.session_state.store_items unassigned
ResetStore ==
    /\ Click
    /\ UNCHANGED now
    /\ \E seed \in Seeds :
          LET g == generate_store(seed, now) IN
          /\ sidebar' = IF g.raised THEN UncaughtMsg ELSE NoMsg
          /\ store_items' = IF g.raised THEN store_items ELSE g.items

SellAny == \E i \in Items, qty \in Qtys : Sell(i, qty)
RestockAny == \E i \in Items, qty \in Qtys : Restock(i, qty)
ReturnAny == \E i \in Items, qty \in Qtys : Return(i, qty)

Next ==
    \/ Tick
    \/ SellAny
    \/ RestockAny
    \/ ReturnAny
    \/ SimulateDayPassing
    \/ ResetStore

Spec == Init /\ [][Next]_vars

\* ---------------------------------------------------- claim vocabulary
Last(s) == s[Len(s)]
IsPrefix(s, t) == Len(s) <= Len(t) /\ SubSeq(t, 1, Len(s)) = s
LogLen(items, i) == Len(items[i].transactions)
NetDelta(item) ==
    SumSeq([k \in 1..Len(item.transactions) |-> item.transactions[k].quantity_change])

RECURSIVE Advanced(_, _)
Advanced(item, n) == IF n = 0 THEN item ELSE Advanced(advance_day(item), n - 1)

\* the targeted item got exactly one more entry <<delta, kind>>, stamped now
LoggedOne(old, new, delta, kind) ==
    /\ Len(new.transactions) = Len(old.transactions) + 1
    /\ IsPrefix(old.transactions, new.transactions)
    /\ Last(new.transactions).quantity_change = delta
    /\ Last(new.transactions).transaction_type = kind

\* a ResetStore step; only that handler ends a run without a sidebar message,
\* and testing the message first spares the generation on every other step
ResetClicked == sidebar' \in {NoMsg, UncaughtMsg} /\ ResetStore

\* a Sell step that reported the sale / the error (the message is tested first)
Sold(i, qty) == sidebar' = SoldMsg(qty) /\ Sell(i, qty)
Rejected(i, qty) == sidebar' = ErrorMsg /\ Sell(i, qty)

OthersUnchanged(i) == \A j \in Items \ {i} : store_items'[j] = store_items[j]

\* C1: every item's quantity is >= 0 in every reachable state.
C1_QuantityNonNegative == \A i \in Items : store_items[i].quantity >= 0

\* a purchase was rejected after an earlier sale had lowered an item's stock
C1_Witness ==
    /\ sidebar = ErrorMsg
    /\ \E i \in Items :
          /\ LogLen(store_items, i) = 2
          /\ Last(store_items[i].transactions).transaction_type = "purchase"
          /\ store_items[i].quantity < InitialQuantity - SeedRanges[i][1]

\* C2: a purchase of more than the quantity on hand reports the error and
\* leaves every item of the store (quantity, log, sold_durations, shelf
\* tracking) exactly as it was.
C2_FailedPurchaseNoMutation ==
    [][\A i \in Items, qty \in Qtys :
          (qty > store_items[i].quantity /\ Sell(i, qty))
              => (sidebar' = ErrorMsg /\ store_items' = store_items)]_vars

\* the first click on a fresh store was a rejected purchase
C2_Witness ==
    /\ sidebar = ErrorMsg
    /\ steps = 1
    /\ \A i \in Items : LogLen(store_items, i) = 1

\* C3: a purchase of 1 <= qty <= quantity appends qty copies of
\* max(0, floor((now - date_displayed) / Day)) to the end of sold_durations,
\* lowers quantity by qty and logs one entry <<-qty, purchase>>; the same sale
\* after n more day advances would record a duration n days larger.
C3_PurchaseEffect ==
    [][\A i \in Items, qty \in Qtys :
          (qty <= store_items[i].quantity /\ Sold(i, qty)) =>
              LET old == store_items[i]
                  new == store_items'[i]
                  d == Max(0, (now - old.shelf_tracking.date_displayed) \div Day)
              IN  /\ new.sold_durations = old.sold_durations \o [k \in 1..qty |-> d]
                  /\ new.quantity = old.quantity - qty
                  /\ LoggedOne(old, new, -qty, "purchase")
                  /\ \A n \in 0..MaxSteps :
                        Last(purchase(Advanced(old, n), qty, now).item.sold_durations)
                            = d + n]_vars

\* one unit was sold after a day advance, so that its recorded duration is
\* longer than those of the seeding purchase
C3_Witness ==
    /\ sidebar = SoldMsg(QtyMin)
    /\ \E i \in Items :
          /\ Last(store_items[i].transactions).transaction_type = "purchase"
          /\ LogLen(store_items, i) = 2
          /\ Last(store_items[i].sold_durations) > Head(store_items[i].sold_durations)

\* C4: return_item never fails; it drops min(qty, len) entries from the end
\* of sold_durations, raises quantity by the full qty and logs one entry
\* <<+qty, return>>.
C4_ReturnEffect ==
    [][\A i \in Items, qty \in Qtys :
          Return(i, qty) =>
              LET old == store_items[i]
                  new == store_items'[i]
                  n == Min(qty, Len(old.sold_durations))
              IN  /\ sidebar' = ReturnedMsg
                  /\ Len(new.sold_durations) = Len(old.sold_durations) - n
                  /\ IsPrefix(new.sold_durations, old.sold_durations)
                  /\ new.quantity = old.quantity + qty
                  /\ LoggedOne(old, new, qty, "return")]_vars

\* more units were returned than sales were recorded
C4_Witness ==
    /\ sidebar = ReturnedMsg
    /\ \E i \in Items :
          /\ Last(store_items[i].transactions).transaction_type = "return"
          /\ store_items[i].sold_durations = <<>>
          /\ store_items[i].quantity > InitialQuantity

\* C5: replenish raises quantity by qty and logs one entry <<+qty, replenish>>;
\* sold_durations, average_days_to_sell and both shelf dates of the item, and
\* every other item, stay as they were.
C5_ReplenishFrame ==
    [][\A i \in Items, qty \in Qtys :
          Restock(i, qty) =>
              LET old == store_items[i]
                  new == store_items'[i]
              IN  /\ new.quantity = old.quantity + qty
                  /\ LoggedOne(old, new, qty, "replenish")
                  /\ new.sold_durations = old.sold_durations
                  /\ average_days_to_sell(new) = average_days_to_sell(old)
                  /\ new.shelf_tracking = old.shelf_tracking
                  /\ OthersUnchanged(i)]_vars

\* an item was restocked
C5_Witness ==
    /\ sidebar = RestockedMsg
    /\ \E i \in Items :
          /\ Last(store_items[i].transactions).transaction_type = "replenish"
          /\ Last(store_items[i].transactions).quantity_change = QtyMax

\* C6: across every step but a reset each log keeps its old entries as a
\* prefix; a successful purchase, a return and a restock add exactly one entry
\* to the targeted log and none elsewhere; a rejected purchase and a day
\* advance add none.
C6_LogAppendOnly ==
    [][/\ ~ResetClicked =>
            \A j \in Items :
                IsPrefix(store_items[j].transactions, store_items'[j].transactions)
       /\ \A i \in Items, qty \in Qtys :
            (Sold(i, qty) \/ Return(i, qty) \/ Restock(i, qty)) =>
                \A j \in Items :
                    LogLen(store_items', j)
                        = LogLen(store_items, j) + (IF j = i THEN 1 ELSE 0)
       /\ ((\E i \in Items, qty \in Qtys : Rejected(i, qty))
            \/ SimulateDayPassing) =>
                \A j \in Items : LogLen(store_items', j) = LogLen(store_items, j)
      ]_vars

\* one item was mutated twice after its seeding purchase
C6_Witness == \E i \in Items : LogLen(store_items, i) = 3

\* C7 as stated: a day advance moves one item's display date and leaves every
\* other item of the store as it was.
C7_OneItemAdvanced ==
    [][SimulateDayPassing =>
          \E i \in Items :
              /\ store_items'[i] = advance_day(store_items[i])
              /\ OthersUnchanged(i)]_vars

\* C7 amended: a day advance moves the display date of every item of the
\* store back by exactly one day and changes no other field of any item; no
\* other step but a reset changes a shelf date.
C7_AllItemsAdvanced ==
    [][/\ SimulateDayPassing =>
            \A i \in Items :
                LET old == store_items[i]
                    new == store_items'[i]
                IN  /\ new.shelf_tracking.date_displayed
                        = old.shelf_tracking.date_displayed - Day
                    /\ new.shelf_tracking.date_received
                        = old.shelf_tracking.date_received
                    /\ new.quantity = old.quantity
                    /\ new.transactions = old.transactions
                    /\ new.sold_durations = old.sold_durations
       /\ (~SimulateDayPassing /\ ~ResetClicked) =>
            \A i \in Items :
                store_items'[i].shelf_tracking = store_items[i].shelf_tracking
      ]_vars

\* two day advances in a row
C7_Witness ==
    /\ sidebar = DayPassedMsg
    /\ steps = 2
    /\ \A i \in Items :
          /\ LogLen(store_items, i) = 1
          /\ days_on_shelf(store_items[i], store_items[i].transactions[1].timestamp)
                = Head(store_items[i].sold_durations) + 2

\* C8 as stated: sold_durations has one entry per net unit sold.
C8_OneEntryPerUnitSold ==
    \A i \in Items : Len(store_items[i].sold_durations) = sales(store_items)[i]

\* C9: a reset never raises and leaves five items with distinct names, each
\* with a log of one purchase of s units, s in the item's seeding range,
\* quantity 20 - s, s recorded durations, and receipt <= display <= a day ago.
C9_ResetIsFullReset ==
    [][ResetClicked =>
          /\ sidebar' = NoMsg
          /\ DOMAIN store_items' = 1..5
          /\ \A i, j \in Items :
                i # j => store_items'[i].name # store_items'[j].name
          /\ \A i \in Items :
                LET new == store_items'[i]
                    s == -new.transactions[1].quantity_change
                IN  /\ Len(new.transactions) = 1
                    /\ new.transactions[1].transaction_type = "purchase"
                    /\ s \in SeedRanges[i][1]..SeedRanges[i][2]
                    /\ new.quantity = 20 - s
                    /\ Len(new.sold_durations) = s
                    /\ new.shelf_tracking.date_displayed <= now - Day
                    /\ new.shelf_tracking.date_received
                        <= new.shelf_tracking.date_displayed]_vars

\* the second click reset the store, after the clock had moved
C9_Witness ==
    /\ sidebar = NoMsg
    /\ steps = 2
    /\ \A i \in Items :
          /\ LogLen(store_items, i) = 1
          /\ store_items[i].transactions[1].timestamp > 0

\* C10: quantity = 20 + the sum of the quantity changes in the item's log, and
\* total_units_sold = the sum over the items of 20 + replenished - quantity.
C10_StockConserved ==
    /\ \A i \in Items :
          store_items[i].quantity = 20 + NetDelta(store_items[i])
    /\ total_units_sold(store_items)
          = SumSeq([i \in Items |->
                20 + ReplenishedUnits(store_items[i]) - store_items[i].quantity])

\* one item was returned to and restocked after its seeding purchase
C10_Witness ==
    \E i \in Items :
        /\ ReturnedUnits(store_items[i]) > 0
        /\ ReplenishedUnits(store_items[i]) > 0
====
